---------------------------- MODULE Spec2Model ----------------------------
(***************************************************************************)
(* The Duel: the turn-resolution engines of the repository.                *)
(*                                                                         *)
(*   - src/unnamed/part_001 : the alternating-carry engine with snapshot   *)
(*     deltas (GameState / Game / GameServer / GameClient / recieveData).  *)
(*   - src/src/script.js (first program, lines 1-1122): the                *)
(*     simultaneous-blind engine with per-command undo.                    *)
(*                                                                         *)
(* JavaScript values are encoded as follows.  Array indices stay 0-based   *)
(* (functions over 0..1).  `null` in a numeric slot is the integer `null`  *)
(* below, which no position arithmetic of the program can produce; a null  *)
(* command is the record NullCommand.                                      *)
(***************************************************************************)
EXTENDS Integers, Sequences, FiniteSets, TLC

\* ------------------------------------------------------------------------
\* Bounds of the model (not program constants)
\* ------------------------------------------------------------------------
\* rounds resolved and not undone on the bare GameState (bounds the health lost)
MaxRounds == 4
\* part_001: rounds in the server's history when events reach the server directly
MaxHistory == 2
\* part_001: rounds in the server's history when the two clients stage and submit
MaxHotseatRounds == 1
\* part_001: rounds in the server's history when handlers get events of any type
MaxHandlerRounds == 1
\* script.js: rounds in the server's moveHistory, and events the server handles
MaxBlindRounds == 2
MaxBlindEvents == 4
\* script.js: rounds resolved and not undone on its bare GameState
MaxBlindStateRounds == 2
\* script.js without a server: envelopes the data channel delivers
MaxPeerEvents == 2
\* part_001: envelopes a remote peer sends, and deliveries of one envelope
MaxRemote == 1
MaxDeliveries == 2

\* ------------------------------------------------------------------------
\* Program constants and encodings
\* ------------------------------------------------------------------------
arenaSize == 8
startHealth == 2
null == 0 - 100
\* JavaScript `undefined` and NaN where a number is expected
undefined == 0 - 200
NaN == 0 - 300

Seats == 0 .. 1
Moves == {"Advance", "Charge", "Retreat", "SwitchAttack"}

\* class Command of part_001
Command(playerIndex, move) == [playerIndex |-> playerIndex, move |-> move]
Commands == {Command(i, m) : i \in Seats, m \in Moves}

\* class Player
Player(start) ==
  [stance |-> "high", position |-> start, nextPosition |-> null,
   health |-> startHealth, isHit |-> FALSE]

\* Math.floor(mid) and Math.ceil(mid) for mid = (arenaSize - 1) / 2
FloorMid == (arenaSize - 1) \div 2
CeilMid == arenaSize - 1 - ((arenaSize - 1) \div 2)

\* GameState.constructor: the two players of a new GameState
NewPlayers == [i \in Seats |-> IF i = 0 THEN Player(FloorMid - 2) ELSE Player(CeilMid + 2)]

\* Math.clamp
clamp(num, min, max) ==
  LET lo == IF num < max THEN num ELSE max
  IN IF min > lo THEN min ELSE lo

\* Math.abs
abs(x) == IF x < 0 THEN 0 - x ELSE x

\* Math.sign(0.5 - playerIndex)
sign(playerIndex) == IF playerIndex = 0 THEN 1 ELSE 0 - 1

\* ------------------------------------------------------------------------
\* part_001: GameState (snapshot engine)
\* ------------------------------------------------------------------------
\* GameState.applyMove moving both players in player 0's direction
applyMove_sameDirection(players, cmd) ==
  LET p == players[cmd.playerIndex]
      np == CASE cmd.move = "Charge" -> p.position + 2
              [] cmd.move = "Retreat" -> p.position - 1
              [] cmd.move = "Advance" -> p.position + 1
              [] OTHER -> p.position
  IN [players EXCEPT ![cmd.playerIndex].nextPosition = np]

\* GameState.applyMove({playerIndex, move})
applyMove(players, cmd) ==
  LET p == players[cmd.playerIndex]
      base == sign(cmd.playerIndex)
      np == CASE cmd.move = "Charge" -> p.position + base * 2
              [] cmd.move = "Retreat" -> p.position + base * (0 - 1)
              [] cmd.move = "Advance" -> p.position + base
              [] OTHER -> p.position
  IN [players EXCEPT ![cmd.playerIndex].nextPosition = np]

\* GameState.applyAttack leaving the attacker's stance as it is
applyAttack_keepsStance(players, cmd) ==
  LET me == cmd.playerIndex
      opp == (cmd.playerIndex + 1) % 2
      distance == abs(players[me].position - players[opp].position)
      attackRange == IF players[me].stance = "high" THEN 2 ELSE 1
  IN IF cmd.move = "SwitchAttack"
       THEN [players EXCEPT ![opp].isHit = (distance = attackRange)]
       ELSE players

\* GameState.applyAttack hitting at any distance up to the range
applyAttack_withinRange(players, cmd) ==
  LET me == cmd.playerIndex
      opp == (cmd.playerIndex + 1) % 2
      distance == abs(players[me].position - players[opp].position)
      attackRange == IF players[me].stance = "high" THEN 2 ELSE 1
  IN IF cmd.move = "SwitchAttack"
       THEN [players EXCEPT
               ![opp].isHit = (distance <= attackRange),
               ![me].stance = IF players[me].stance = "high" THEN "low" ELSE "high"]
       ELSE players

\* GameState.applyAttack({playerIndex, move})
applyAttack(players, cmd) ==
  LET me == cmd.playerIndex
      opp == (cmd.playerIndex + 1) % 2
      distance == abs(players[me].position - players[opp].position)
      attackRange == IF players[me].stance = "high" THEN 2 ELSE 1
  IN IF cmd.move = "SwitchAttack"
       THEN [players EXCEPT
               ![opp].isHit = (distance = attackRange),
               ![me].stance = IF players[me].stance = "high" THEN "low" ELSE "high"]
       ELSE players

\* GameState.getPlayerStates
getPlayerStates(players) ==
  [i \in Seats |-> [health |-> players[i].health,
                    position |-> players[i].position,
                    stance |-> players[i].stance]]

\* setPlayerStates forgetting the health
setPlayerStates_keepsHealth(players, states) ==
  [i \in Seats |-> [health |-> players[i].health,
                    position |-> states[i].position,
                    stance |-> states[i].stance,
                    nextPosition |-> states[i].position,
                    isHit |-> FALSE]]

\* GameState.setPlayerStates
setPlayerStates(players, states) ==
  [i \in Seats |-> [health |-> states[i].health,
                    position |-> states[i].position,
                    stance |-> states[i].stance,
                    nextPosition |-> states[i].position,
                    isHit |-> FALSE]]

\* "keep players in bounds" without the lower limit
keepInBounds_noMin(players) ==
  [i \in Seats |->
     [players[i] EXCEPT !.nextPosition =
        IF players[i].nextPosition = null
          THEN players[i].position
          ELSE IF players[i].nextPosition > arenaSize - 1 THEN arenaSize - 1
               ELSE players[i].nextPosition]]

\* "keep players in bounds" without the upper limit
keepInBounds_noMax(players) ==
  [i \in Seats |->
     [players[i] EXCEPT !.nextPosition =
        IF players[i].nextPosition = null
          THEN players[i].position
          ELSE IF players[i].nextPosition < 0 THEN 0 ELSE players[i].nextPosition]]

\* GameState.apply, "keep players in bounds"
keepInBounds(players) ==
  [i \in Seats |->
     [players[i] EXCEPT !.nextPosition =
        clamp(IF players[i].nextPosition = null THEN players[i].position
                                               ELSE players[i].nextPosition,
              0, arenaSize - 1)]]

\* "resolve movement" without the test of the two targets
resolveMovement_always(players) ==
  [i \in Seats |-> [players[i] EXCEPT !.position = players[i].nextPosition,
                                      !.nextPosition = null]]

\* "resolve movement" letting the players end on the same cell
resolveMovement_orEqual(players) ==
  IF players[0].nextPosition <= players[1].nextPosition
    THEN [i \in Seats |-> [players[i] EXCEPT !.position = players[i].nextPosition,
                                            !.nextPosition = null]]
    ELSE players

\* GameState.apply, "resolve movement"
resolveMovement(players) ==
  IF players[0].nextPosition < players[1].nextPosition
    THEN [i \in Seats |-> [players[i] EXCEPT !.position = players[i].nextPosition,
                                            !.nextPosition = null]]
    ELSE players

\* "resolve damage" taking two health from a hit player
resolveDamage_double(players) ==
  [i \in Seats |-> [players[i] EXCEPT !.health = players[i].health - (IF players[i].isHit THEN 2 ELSE 0),
                                      !.isHit = FALSE]]

\* GameState.apply, "resolve damage"
resolveDamage(players) ==
  [i \in Seats |-> [players[i] EXCEPT !.health = players[i].health - (IF players[i].isHit THEN 1 ELSE 0),
                                      !.isHit = FALSE]]

\* GameState.apply, the players after "keep players in bounds"
intendedPlayers(players, moves) ==
  keepInBounds(applyMove(applyMove(players, moves[0]), moves[1]))

\* GameState.apply(moves): the players afterwards and the returned deltas
GameState_apply(players, moves) ==
  LET before == getPlayerStates(players)
      moved == resolveMovement(intendedPlayers(players, moves))
      attacked == applyAttack(applyAttack(moved, moves[0]), moves[1])
      done == resolveDamage(attacked)
  IN [players |-> done,
      deltas |-> [before |-> before, after |-> getPlayerStates(done)]]

\* GameState.undo(deltas)
GameState_undo(players, deltas) == setPlayerStates(players, deltas.before)

\* Two GameState instances side by side. Objects are held by reference: `twins` maps
\* a reference to the Player object it names, and an instance is the pair of
\* references in its this.players.
Instances == 0 .. 1

\* GameState.constructor sharing the Player object of seat 1 between instances
GameState_players_sharedOpponent(n) == [i \in Seats |-> IF i = 1 THEN 1 ELSE 2 * n + i]

\* GameState.constructor, the n-th instance built: this.players = [new Player(..),
\* new Player(..)], two objects of its own
GameState_players(n) == [i \in Seats |-> 2 * n + i]

\* the Player objects after both constructors have run
NewTwins ==
  [ref \in {GameState_players(n)[i] : n \in Instances, i \in Seats} |->
     NewPlayers[CHOOSE i \in Seats : \E n \in Instances : GameState_players(n)[i] = ref]]

\* this.players of instance n, the objects themselves
TwinPlayers(heap, n) == [i \in Seats |-> heap[GameState_players(n)[i]]]

\* instance n's apply(moves): the objects it holds are mutated in place
TwinApplied(heap, n, moves) ==
  LET after == GameState_apply(TwinPlayers(heap, n), moves).players
  IN [ref \in DOMAIN heap |->
        IF \E i \in Seats : GameState_players(n)[i] = ref
          THEN after[CHOOSE i \in Seats : GameState_players(n)[i] = ref]
          ELSE heap[ref]]

\* ------------------------------------------------------------------------
\* part_001: Game (alternating-carry turn coordinator)
\* ------------------------------------------------------------------------
\* a null slot of nextCommands / selectedMoves
NullCommand == [playerIndex |-> null, move |-> "null"]

\* Game.constructor
NewGame ==
  [players |-> NewPlayers,
   history |-> <<>>,
   nextCommands |-> [i \in Seats |-> IF i = 0 THEN NullCommand ELSE Command(1, "Advance")]]

\* Array.prototype.findIndex((m) => m === null) on a two-slot array
findNull(slots) ==
  IF slots[0] = NullCommand THEN 0
  ELSE IF slots[1] = NullCommand THEN 1
  ELSE 0 - 1

\* Game.activePlayer
activePlayer(game) == findNull(game.nextCommands)

\* an array assignment slots[index] = value; an index of -1 sets no element
setSlot(slots, index, value) ==
  IF index \in Seats THEN [slots EXCEPT ![index] = value] ELSE slots

\* Game.applyMoves carrying `first` instead of `second` into the next round
Game_applyMoves_carriesFirst(game, first, second) ==
  LET active == activePlayer(game)
      moves == setSlot(game.nextCommands, active, first)
      r == GameState_apply(game.players, moves)
  IN [players |-> r.players,
      history |-> Append(game.history, [moves |-> moves, deltas |-> r.deltas]),
      nextCommands |-> setSlot([i \in Seats |-> NullCommand], active, first)]

\* Game.applyMoves without this.nextCommands = [null, null]
Game_applyMoves_keepsCarry(game, first, second) ==
  LET active == activePlayer(game)
      moves == setSlot(game.nextCommands, active, first)
      r == GameState_apply(game.players, moves)
  IN [players |-> r.players,
      history |-> Append(game.history, [moves |-> moves, deltas |-> r.deltas]),
      nextCommands |-> setSlot(moves, active, second)]

\* Game.applyMoves(first, second)
Game_applyMoves(game, first, second) ==
  LET active == activePlayer(game)
      moves == setSlot(game.nextCommands, active, first)
      r == GameState_apply(game.players, moves)
  IN [players |-> r.players,
      history |-> Append(game.history, [moves |-> moves, deltas |-> r.deltas]),
      nextCommands |-> setSlot([i \in Seats |-> NullCommand], active, second)]

\* Game.undo popping the round without this.state.undo(deltas)
Game_undo_keepsPlayers(game) ==
  IF Len(game.history) = 0 THEN game
  ELSE LET active == activePlayer(game)
           last == game.history[Len(game.history)]
       IN [players |-> game.players,
           history |-> SubSeq(game.history, 1, Len(game.history) - 1),
           nextCommands |-> setSlot(last.moves, (active + 1) % 2, NullCommand)]

\* Game.undo nulling the slot of the active player instead of the other one
Game_undo_nullsActive(game) ==
  IF Len(game.history) = 0 THEN game
  ELSE LET active == activePlayer(game)
           last == game.history[Len(game.history)]
       IN [players |-> GameState_undo(game.players, last.deltas),
           history |-> SubSeq(game.history, 1, Len(game.history) - 1),
           nextCommands |-> setSlot(last.moves, active, NullCommand)]

\* Game.undo: the game afterwards
Game_undo(game) ==
  IF Len(game.history) = 0 THEN game
  ELSE LET active == activePlayer(game)
           last == game.history[Len(game.history)]
       IN [players |-> GameState_undo(game.players, last.deltas),
           history |-> SubSeq(game.history, 1, Len(game.history) - 1),
           nextCommands |-> setSlot(last.moves, (active + 1) % 2, NullCommand)]

\* Game.undo: its return value, a bare `return;` on the empty history, else true
Game_undo_returns(game) == IF Len(game.history) = 0 THEN "undefined" ELSE "true"

\* Game.undo: its return value as tested by `if (!changed)`
Game_undo_changed(game) == Game_undo_returns(game) \notin {"undefined", "false"}

\* Game.undo called once for every entry of the history
RECURSIVE Game_undoAll(_)
Game_undoAll(game) ==
  IF Len(game.history) = 0 THEN game ELSE Game_undoAll(Game_undo(game))

\* ------------------------------------------------------------------------
\* part_001: GameClient and GameServer
\* ------------------------------------------------------------------------
\* GameClient.constructor
NewClient(playerIndex) ==
  [playerIndex |-> playerIndex,
   game |-> NewGame,
   selectedMoves |-> [i \in Seats |-> NullCommand],
   changed |-> FALSE]

\* GameClient.handle passing the two commands of applyMoves in the wrong order
GameClient_handle_swapped(client, event) ==
  CASE event.type = "applyMoves" ->
         [client EXCEPT !.game = Game_applyMoves(client.game, event.move[1], event.move[0]),
                        !.changed = TRUE]
    [] event.type = "undoMoves" ->
         [client EXCEPT !.game = Game_undo(client.game), !.changed = TRUE]

\* GameClient.handle reaching `this.changed = true` for every event type
GameClient_handle_marksChanged(client, event) ==
  CASE event.type = "applyMoves" ->
         [client EXCEPT !.game = Game_applyMoves(client.game, event.move[0], event.move[1]),
                        !.changed = TRUE]
    [] event.type = "undoMoves" ->
         [client EXCEPT !.game = Game_undo(client.game), !.changed = TRUE]
    [] OTHER -> [client EXCEPT !.changed = TRUE]

\* GameClient.handle(event): the client afterwards; the default case throws before
\* `this.changed = true`
GameClient_handle(client, event) ==
  CASE event.type = "applyMoves" ->
         [client EXCEPT !.game = Game_applyMoves(client.game, event.move[0], event.move[1]),
                        !.changed = TRUE]
    [] event.type = "undoMoves" ->
         [client EXCEPT !.game = Game_undo(client.game), !.changed = TRUE]
    [] OTHER -> client

\* GameClient.handle(event): the message of the Error it throws, "none" if it returns
GameClient_handle_raises(event) ==
  CASE event.type = "applyMoves" -> "none"
    [] event.type = "undoMoves" -> "none"
    [] OTHER -> "Unknown client event"

\* GameServer.handle(event): the message of the Error it throws, "none" if it
\* returns; its default case is `break`
GameServer_handle_raises(event) ==
  CASE event.type = "selectMove" -> "none"
    [] event.type = "undoMove" -> "none"
    [] OTHER -> "none"

\* GameClient.hasUpdated: its return value
hasUpdated_returns(client) == client.changed

\* GameClient.hasUpdated leaving the flag as it is
hasUpdated_keepsFlag(client) == client

\* GameClient.hasUpdated: the client afterwards
hasUpdated(client) == IF client.changed THEN [client EXCEPT !.changed = FALSE] ELSE client

\* GameServer.sendEventToClients: every local client handles the event
sendEventToClients(cs, event) == [i \in Seats |-> GameClient_handle(cs[i], event)]

SelectMoveEvent(move) == [type |-> "selectMove", move |-> move]
UndoMoveEvent == [type |-> "undoMove", move |-> [i \in Seats |-> NullCommand]]
ApplyMovesEvent(move) == [type |-> "applyMoves", move |-> move]
UndoMovesEvent == [type |-> "undoMoves", move |-> [i \in Seats |-> NullCommand]]

\* GameServer.handle broadcasting undoMoves whatever Game.undo returned
GameServer_broadcast_always(game, event) ==
  CASE event.type = "selectMove" -> <<ApplyMovesEvent(event.move)>>
    [] event.type = "undoMove" -> <<UndoMovesEvent>>
    [] OTHER -> <<>>

\* the events GameServer.handle broadcasts for an event, in order
GameServer_broadcast(game, event) ==
  CASE event.type = "selectMove" -> <<ApplyMovesEvent(event.move)>>
    [] event.type = "undoMove" ->
         IF Game_undo_changed(game) THEN <<UndoMovesEvent>> ELSE <<>>
    [] OTHER -> <<>>

\* the server's Game after GameServer.handle(event)
GameServer_game(game, event) ==
  CASE event.type = "selectMove" -> Game_applyMoves(game, event.move[0], event.move[1])
    [] event.type = "undoMove" -> Game_undo(game)
    [] OTHER -> game

\* GameClient.submitMoves sending the staged commands in reverse slot order
submitMoves_sent_swapped(client) ==
  LET sel == client.selectedMoves
  IN IF sel[0] = NullCommand \/ sel[1] = NullCommand THEN <<>>
     ELSE <<SelectMoveEvent([k \in Seats |-> sel[1 - k]])>>

\* GameClient.submitMoves: the events handed to sendEventToServer
submitMoves_sent(client) ==
  LET sel == client.selectedMoves
  IN IF sel[0] = NullCommand \/ sel[1] = NullCommand THEN <<>>
     ELSE <<SelectMoveEvent(sel)>>

\* GameClient.submitMoves: selectedMoves when the call returns
submitMoves_selectedMoves(client) ==
  LET sel == client.selectedMoves
  IN IF sel[0] = NullCommand \/ sel[1] = NullCommand THEN sel
     ELSE [k \in Seats |-> NullCommand]

\* GameClient.selectMove without the test for a move that is already selected
stageMove_noToggle(client, move) ==
  LET sel == client.selectedMoves
      firstEmptyIndex == findNull(sel)
  IN IF client.playerIndex # activePlayer(client.game) THEN sel
     ELSE IF firstEmptyIndex >= 0
       THEN [sel EXCEPT ![firstEmptyIndex] = Command(client.playerIndex, move)]
     ELSE sel

\* GameClient.selectMove without the test of whose turn it is
stageMove_ungated(client, move) ==
  LET sel == client.selectedMoves
      moveIndex == IF sel[0] # NullCommand /\ sel[0].move = move THEN 0
                   ELSE IF sel[1] # NullCommand /\ sel[1].move = move THEN 1
                   ELSE 0 - 1
      firstEmptyIndex == findNull(sel)
  IN IF moveIndex >= 0 THEN [sel EXCEPT ![moveIndex] = NullCommand]
     ELSE IF firstEmptyIndex >= 0
       THEN [sel EXCEPT ![firstEmptyIndex] = Command(client.playerIndex, move)]
     ELSE sel

\* GameClient.selectMove filling the last empty slot instead of the first
stageMove_lastEmpty(client, move) ==
  LET sel == client.selectedMoves
      moveIndex == IF sel[0] # NullCommand /\ sel[0].move = move THEN 0
                   ELSE IF sel[1] # NullCommand /\ sel[1].move = move THEN 1
                   ELSE 0 - 1
      lastEmptyIndex == IF sel[1] = NullCommand THEN 1 ELSE findNull(sel)
  IN IF client.playerIndex # activePlayer(client.game) THEN sel
     ELSE IF moveIndex >= 0 THEN [sel EXCEPT ![moveIndex] = NullCommand]
     ELSE IF lastEmptyIndex >= 0
       THEN [sel EXCEPT ![lastEmptyIndex] = Command(client.playerIndex, move)]
     ELSE sel

\* GameClient.selectMove(move), move other than "Submit": the staging buffer
stageMove(client, move) ==
  LET sel == client.selectedMoves
      moveIndex == IF sel[0] # NullCommand /\ sel[0].move = move THEN 0
                   ELSE IF sel[1] # NullCommand /\ sel[1].move = move THEN 1
                   ELSE 0 - 1
      firstEmptyIndex == findNull(sel)
  IN IF client.playerIndex # activePlayer(client.game) THEN sel
     ELSE IF moveIndex >= 0 THEN [sel EXCEPT ![moveIndex] = NullCommand]
     ELSE IF firstEmptyIndex >= 0
       THEN [sel EXCEPT ![firstEmptyIndex] = Command(client.playerIndex, move)]
     ELSE sel

\* ------------------------------------------------------------------------
\* script.js (first program): the simultaneous-blind engine
\* ------------------------------------------------------------------------
\* class Command of script.js
BlindCommand(type, playerIndex, params) ==
  [type |-> type, playerIndex |-> playerIndex, params |-> params]

\* Map.get(key) of a key the Map does not hold
NoCommand == [type |-> "undefined"]

\* command.params.health: no command is built with a health parameter
paramsHealth(command) ==
  IF "health" \in DOMAIN command.params THEN command.params.health ELSE undefined

\* p.health -= d on a health that may be undefined or NaN
minus(health, d) == IF health \in {undefined, NaN} THEN NaN ELSE health - d

flip(stance) == IF stance = "high" THEN "low" ELSE "high"

\* Game.attackCommand(playerIndex, moveType), moveType SwitchAttack or NeutralAttack
attackCommand(game, playerIndex, moveType) ==
  LET player == game.players[playerIndex]
  IN BlindCommand("attack", playerIndex,
       [name |-> moveType,
        attackRange |-> IF moveType = "SwitchAttack"
                          THEN (IF player.stance = "high" THEN 3 ELSE 2)
                          ELSE 1,
        stance |-> player.stance,
        nextStance |-> IF moveType = "SwitchAttack" THEN flip(player.stance)
                                                   ELSE player.stance])

\* Game.stanceCommand(playerIndex)
stanceCommand(game, playerIndex) ==
  LET player == game.players[playerIndex]
  IN BlindCommand("changeStance", playerIndex,
       [name |-> "ChangeStance", stance |-> player.stance,
        nextStance |-> flip(player.stance)])

\* Game.moveCommand(playerIndex, moveType), moveType Charge, Retreat or Forward
moveCommand(game, playerIndex, moveType) ==
  LET player == game.players[playerIndex]
      base == sign(playerIndex)
      offset == CASE moveType = "Charge" -> base * 2
                  [] moveType = "Retreat" -> base * (0 - 1)
                  [] moveType = "Forward" -> base
  IN BlindCommand("move", playerIndex,
       [name |-> moveType,
        nextPosition |-> player.position + offset,
        position |-> player.position])

\* applyStance(move, player, opponent), for the player in slot i
Blind_applyStance(players, i, move) ==
  IF move.type = "changeStance"
    THEN [players EXCEPT ![i].stance = move.params.nextStance]
    ELSE players

\* applyMove(move, player, opponent)
Blind_applyMove(players, i, move) ==
  IF move.type = "move"
    THEN [players EXCEPT ![i].nextPosition = move.params.nextPosition]
    ELSE players

\* applyAttack(attack, player, opponent)
Blind_applyAttack(players, i, attack) ==
  LET opp == (i + 1) % 2
      distance == abs(players[i].position - players[opp].position)
  IN IF attack.type = "attack"
       THEN [players EXCEPT ![opp].isHit = (distance = attack.params.attackRange),
                            ![i].stance = attack.params.nextStance]
       ELSE players

\* undoCommand(command, player, opponent)
undoCommand(players, i, command) ==
  LET opp == (i + 1) % 2
  IN CASE command.type = "move" ->
            [players EXCEPT ![i].position = command.params.position]
       [] command.type = "attack" ->
            [players EXCEPT ![opp].health = paramsHealth(command),
                            ![opp].isHit = FALSE,
                            ![i].stance = command.params.stance]
       [] command.type = "changeStance" ->
            [players EXCEPT ![i].stance = command.params.stance]
       [] OTHER -> players

\* GameState.apply of script.js, "keep players in bounds"
Blind_keepInBounds(players) ==
  [i \in Seats |->
     [players[i] EXCEPT !.nextPosition =
        clamp(IF players[i].nextPosition = null THEN players[i].position
                                               ELSE players[i].nextPosition,
              0, arenaSize - 1)]]

\* GameState.apply of script.js, "resolve movement"
Blind_resolveMovement(players) ==
  IF players[0].nextPosition < players[1].nextPosition
    THEN [i \in Seats |-> [players[i] EXCEPT !.position = players[i].nextPosition,
                                            !.nextPosition = null]]
    ELSE players

\* GameState.apply of script.js, the players after "keep players in bounds"
Blind_intendedPlayers(players, moves) ==
  LET stanced == Blind_applyStance(Blind_applyStance(players, 0, moves[0]), 1, moves[1])
      intent == Blind_applyMove(Blind_applyMove(stanced, 0, moves[0]), 1, moves[1])
  IN Blind_keepInBounds(intent)

\* p.health -= p.isHit ? 1 : 0; p.isHit = false
Blind_resolveDamage(players) ==
  [i \in Seats |-> [players[i] EXCEPT !.health = minus(players[i].health,
                                                       IF players[i].isHit THEN 1 ELSE 0),
                                      !.isHit = FALSE]]

\* GameState.apply(moves) of script.js
Blind_GameState_apply(players, moves) ==
  LET moved == Blind_resolveMovement(Blind_intendedPlayers(players, moves))
      attacked == Blind_applyAttack(Blind_applyAttack(moved, 0, moves[0]), 1, moves[1])
  IN Blind_resolveDamage(attacked)

\* GameState.undo(moves) of script.js
Blind_GameState_undo(players, moves) ==
  undoCommand(undoCommand(players, 0, moves[0]), 1, moves[1])

\* Game.constructor of script.js
Blind_NewGame ==
  [players |-> NewPlayers,
   moveHistory |-> <<>>,
   selectedMoves |-> [i \in Seats |-> NoCommand]]

\* Game.apply: whether it returns true
Blind_Game_apply_changed(game) ==
  game.selectedMoves[0] # NoCommand /\ game.selectedMoves[1] # NoCommand

\* Game.apply without this.selectedMoves.clear()
Blind_Game_apply_keepsStaged(game) ==
  IF ~Blind_Game_apply_changed(game) THEN game
  ELSE [players |-> Blind_GameState_apply(game.players, game.selectedMoves),
        moveHistory |-> Append(game.moveHistory, game.selectedMoves),
        selectedMoves |-> game.selectedMoves]

\* Game.apply: the game afterwards
Blind_Game_apply(game) ==
  IF ~Blind_Game_apply_changed(game) THEN game
  ELSE [players |-> Blind_GameState_apply(game.players, game.selectedMoves),
        moveHistory |-> Append(game.moveHistory, game.selectedMoves),
        selectedMoves |-> [i \in Seats |-> NoCommand]]

\* Game.applyMoves(moves): moves.forEach((m) => this.selectedMoves.set(m.playerIndex, m))
Blind_Game_applyMoves(game, moves) ==
  [game EXCEPT !.selectedMoves =
     [[game.selectedMoves EXCEPT ![moves[0].playerIndex] = moves[0]]
        EXCEPT ![moves[1].playerIndex] = moves[1]]]

\* Game.undo: whether it returns true
Blind_Game_undo_changed(game) == Len(game.moveHistory) # 0

\* Game.undo: the game afterwards
Blind_Game_undo(game) ==
  IF Len(game.moveHistory) = 0
    THEN [game EXCEPT !.selectedMoves = [i \in Seats |-> NoCommand]]
    ELSE [players |-> Blind_GameState_undo(game.players,
                                           game.moveHistory[Len(game.moveHistory)]),
          moveHistory |-> SubSeq(game.moveHistory, 1, Len(game.moveHistory) - 1),
          selectedMoves |-> [i \in Seats |-> NoCommand]]

\* GameServer.handle keeping an intent that is already staged for the player
Blind_GameServer_game_firstWins(game, event) ==
  CASE event.type = "selectMove" ->
         Blind_Game_apply(IF game.selectedMoves[event.move.playerIndex] # NoCommand THEN game
                          ELSE [game EXCEPT !.selectedMoves[event.move.playerIndex] = event.move])
    [] event.type = "undoMove" -> Blind_Game_undo(game)
    [] OTHER -> game

\* GameServer.handle(event) of script.js: the server's Game afterwards
Blind_GameServer_game(game, event) ==
  CASE event.type = "selectMove" ->
         Blind_Game_apply([game EXCEPT !.selectedMoves[event.move.playerIndex] = event.move])
    [] event.type = "undoMove" -> Blind_Game_undo(game)
    [] OTHER -> game

\* GameServer.applyMoves / undoMoves: the events broadcast, in order
Blind_GameServer_broadcast(game, event) ==
  CASE event.type = "selectMove" ->
         LET staged == [game EXCEPT !.selectedMoves[event.move.playerIndex] = event.move]
             after == Blind_Game_apply(staged)
         IN IF Blind_Game_apply_changed(staged)
              THEN <<[type |-> "applyMoves",
                      moves |-> after.moveHistory[Len(after.moveHistory)]]>>
              ELSE <<>>
    [] event.type = "undoMove" ->
         IF Blind_Game_undo_changed(game) THEN <<[type |-> "undoMoves"]>> ELSE <<>>
    [] OTHER -> <<>>

\* GameClient.handle(event) of script.js: the replica afterwards; the default case
\* throws
Blind_GameClient_handle(game, event) ==
  CASE event.type = "applyMoves" -> Blind_Game_applyMoves(game, event.moves)
    [] event.type = "undoMoves" -> Blind_Game_undo(game)
    [] OTHER -> game

\* GameClient.handle(event) of script.js: the message of the Error it throws
Blind_GameClient_handle_raises(event) ==
  CASE event.type = "applyMoves" -> "none"
    [] event.type = "undoMoves" -> "none"
    [] OTHER -> "Unknown client event"

\* recieveData in a process without a server: the message of the Error it throws
recieveData_raises(parsedData) ==
  CASE parsedData.target = "server" -> "Has no server!"
    [] parsedData.target = "client" -> Blind_GameClient_handle_raises(parsedData.event)
    [] OTHER -> "none"

\* recieveData handing every event to client.handle, whatever the target
recieveData_anyTarget(game, parsedData) ==
  Blind_GameClient_handle(game, parsedData.event)

\* recieveData in a process without a server: the replica afterwards
recieveData(game, parsedData) ==
  CASE parsedData.target = "server" -> game
    [] parsedData.target = "client" -> Blind_GameClient_handle(game, parsedData.event)
    [] OTHER -> game

\* getPlayer(eventCode)
getPlayer(eventCode) ==
  IF eventCode \in {"KeyW", "KeyA", "KeyS", "KeyD", "Space"} THEN 0
  ELSE IF eventCode \in {"ArrowUp", "ArrowLeft", "ArrowDown", "ArrowRight", "Enter"} THEN 1
  ELSE 0 - 2

\* eventToMoveType(eventCode)
eventToMoveType(eventCode) ==
  IF eventCode \in {"ArrowRight", "KeyA"} THEN "Retreat"
  ELSE IF eventCode \in {"ArrowUp", "KeyW"} THEN "Charge"
  ELSE "Forward"

\* ------------------------------------------------------------------------
\* State
\* ------------------------------------------------------------------------
VARIABLES
  program,    \* which program of the repository is running
  gsPlayers,  \* a bare GameState of part_001: its players
  gsDeltas,   \* the deltas its latest apply returned, kept until undone (else empty)
  gsRounds,   \* rounds applied to it and not undone
  twins,      \* part_001: the Player objects of two more GameState instances, by reference
  server,     \* part_001: server.game, the Game of the GameServer
  clients,    \* part_001: clients[0], clients[1]
  wire,       \* part_001: envelopes the transport holds for this process
  stats,      \* broadcasts of the server so far minus the changes of its history, and
              \* whether clients[i] has handled an event since its latest hasUpdated call
  bServer,    \* script.js: server.game
  bClient,    \* script.js: client.game, the replica (also the global `game`)
  bTrail,     \* script.js: the server's players before each round of its moveHistory
  last,       \* script.js: what the latest GameServer.handle call did, and the events
              \* the process has handled so far (observer)
  outcome     \* the latest handler call made from outside: its event type, the error raised

vars == <<program, gsPlayers, gsDeltas, gsRounds, twins, server, clients, wire, stats,
          bServer, bClient, bTrail, last, outcome>>
stateVars == <<gsPlayers, gsDeltas, gsRounds, twins>>
carryVars == <<server, clients, wire>>
blindVars == <<bServer, bClient, bTrail, last>>

\* ------------------------------------------------------------------------
\* Initial state: every object as its constructor leaves it
\* ------------------------------------------------------------------------
InitState ==
  /\ gsPlayers = NewPlayers
  /\ gsDeltas = <<>>
  /\ gsRounds = 0
  /\ twins = NewTwins

\* part_001, lines 936-937: server = new GameServer(), clients = [new GameClient(0), new GameClient(1)]
InitCarry ==
  /\ server = NewGame
  /\ clients = [i \in Seats |-> NewClient(i)]
  /\ wire = {}
  /\ stats = [applyMovesLessPushed |-> 0, undoMovesLessPopped |-> 0,
              unseen |-> [i \in Seats |-> FALSE]]

\* script.js, lines 967-969: server = new GameServer() without rtcClient,
\* client = new GameClient(-1), game = client.game
InitBlind ==
  /\ bServer = Blind_NewGame
  /\ bClient = Blind_NewGame
  /\ bTrail = <<>>
  /\ last = [type |-> "none", staged |-> 0, replaced |-> FALSE, changed |-> FALSE,
             grew |-> 0, shrank |-> 0, applyMoves |-> 0, undoMoves |-> 0, handled |-> 0]

\* no handler has been called yet
InitOutcome == outcome = [call |-> "none", type |-> "none", error |-> "none"]

InitAll == InitState /\ InitCarry /\ InitBlind /\ InitOutcome

\* the program that runs is one of `programs`, freshly constructed
InitOf(programs) == program \in programs /\ InitAll

\* ------------------------------------------------------------------------
\* A bare GameState of part_001, driven by apply and undo
\* ------------------------------------------------------------------------
\* GameState.apply(moves) on the bare GameState
StateApply(m0, m1) ==
  /\ program = "GameState"
  /\ gsRounds < MaxRounds
  /\ LET r == GameState_apply(gsPlayers, [i \in Seats |-> IF i = 0 THEN m0 ELSE m1])
     IN /\ gsPlayers' = r.players
        /\ gsDeltas' = <<r.deltas>>
  /\ gsRounds' = gsRounds + 1
  /\ UNCHANGED <<program, outcome, twins, carryVars, stats, blindVars>>

\* GameState.undo(deltas) with the latest delta not yet undone
StateUndo ==
  /\ program = "GameState"
  /\ Len(gsDeltas) > 0
  /\ gsPlayers' = GameState_undo(gsPlayers, gsDeltas[Len(gsDeltas)])
  /\ gsDeltas' = <<>>
  /\ gsRounds' = gsRounds - 1
  /\ UNCHANGED <<program, outcome, twins, carryVars, stats, blindVars>>

\* one command per player, slot i holding the command of player i
NextState ==
  \/ \E m0 \in Moves, m1 \in Moves : StateApply(Command(0, m0), Command(1, m1))
  \/ StateUndo

SpecState == InitOf({"GameState"}) /\ [][NextState]_vars

\* the same round given to both instances, one apply call after the other
TwinApply(moves) ==
  /\ program = "twins"
  /\ gsRounds < MaxRounds
  /\ twins' = TwinApplied(TwinApplied(twins, 0, moves), 1, moves)
  /\ gsRounds' = gsRounds + 1
  /\ UNCHANGED <<program, outcome, gsPlayers, gsDeltas, carryVars, stats, blindVars>>

NextTwins ==
  \E m0 \in Commands, m1 \in Commands : TwinApply([i \in Seats |-> IF i = 0 THEN m0 ELSE m1])

SpecTwins == InitOf({"twins"}) /\ [][NextTwins]_vars

\* ------------------------------------------------------------------------
\* part_001 as it runs: a local server, two local clients, the transport
\* ------------------------------------------------------------------------
\* the clients after the server has handled `event` (GameServer.handle, 599-621)
HandledClients(event) ==
  LET sent == GameServer_broadcast(server, event)
  IN IF sent = <<>> THEN clients ELSE sendEventToClients(clients, sent[1])

\* the observer after the server has handled `event`: the events broadcast are
\* counted from what handle sends, the entries appended and popped from the history
HandledStats(event) ==
  LET sent == GameServer_broadcast(server, event)
      after == GameServer_game(server, event)
      grew == IF Len(after.history) > Len(server.history) THEN 1 ELSE 0
      shrank == IF Len(after.history) < Len(server.history) THEN 1 ELSE 0
      applies == Cardinality({k \in DOMAIN sent : sent[k].type = "applyMoves"})
      undos == Cardinality({k \in DOMAIN sent : sent[k].type = "undoMoves"})
  IN [stats EXCEPT !.applyMovesLessPushed = @ + applies - grew,
                   !.undoMovesLessPopped = @ + undos - shrank,
                   !.unseen = [i \in Seats |-> @[i] \/ sent # <<>>]]

\* the bound on what the server is given to handle
MayHandle(event) ==
  event.type = "selectMove" =>
    Len(server.history) < (CASE program = "hotseat" -> MaxHotseatRounds
                             [] program = "handlers" -> MaxHandlerRounds
                             [] OTHER -> MaxHistory)

\* makeActionButton's onclick: clients[i].selectMove(move), move a move name
SelectMove(i, move) ==
  /\ program = "hotseat"
  /\ clients' = [clients EXCEPT ![i].selectedMoves = stageMove(clients[i], move)]
  /\ UNCHANGED <<program, outcome, stateVars, server, wire, stats, blindVars>>

\* clients[i].selectMove("Submit"): submitMoves, which reaches the local server
Submit(i) ==
  /\ program = "hotseat"
  /\ LET sent == submitMoves_sent(clients[i])
     IN IF sent = <<>>
          THEN UNCHANGED <<server, clients, stats>>
          ELSE /\ MayHandle(sent[1])
               /\ server' = GameServer_game(server, sent[1])
               /\ clients' = [HandledClients(sent[1]) EXCEPT
                                ![i].selectedMoves = submitMoves_selectedMoves(clients[i])]
               /\ stats' = HandledStats(sent[1])
  /\ UNCHANGED <<program, outcome, stateVars, wire, blindVars>>

\* keyPressed, "Backspace": clients[0].sendEventToServer({ type: "undoMove" })
KeyPressedBackspace ==
  /\ program = "hotseat"
  /\ MayHandle(UndoMoveEvent)
  /\ server' = GameServer_game(server, UndoMoveEvent)
  /\ clients' = HandledClients(UndoMoveEvent)
  /\ stats' = HandledStats(UndoMoveEvent)
  /\ UNCHANGED <<program, outcome, stateVars, wire, blindVars>>

\* tick: const moved = clients[0].hasUpdated()
Tick ==
  /\ program \in {"hotseat", "handlers"}
  /\ clients' = [clients EXCEPT ![0] = hasUpdated(clients[0])]
  /\ stats' = [stats EXCEPT !.unseen[0] = FALSE]
  /\ UNCHANGED <<program, outcome, stateVars, server, wire, blindVars>>

NextHotseat ==
  \/ \E i \in Seats, move \in Moves : SelectMove(i, move)
  \/ \E i \in Seats : Submit(i)
  \/ KeyPressedBackspace
  \/ Tick

\* ------------------------------------------------------------------------
\* part_001, the server handling events sent to it directly
\* ------------------------------------------------------------------------
\* the selectMove events GameClient.submitMoves can send: the two staged
\* commands of one client
SubmitEvents ==
  {SelectMoveEvent([k \in Seats |-> IF k = 0 THEN Command(i, m0) ELSE Command(i, m1)]) :
     i \in Seats, m0 \in Moves, m1 \in Moves}

\* GameClient.sendEventToServer(event) with a local server: server.handle(event)
SendEventToServer(event) ==
  /\ program = "server"
  /\ MayHandle(event)
  /\ server' = GameServer_game(server, event)
  /\ clients' = HandledClients(event)
  /\ stats' = HandledStats(event)
  /\ UNCHANGED <<program, outcome, stateVars, wire, blindVars>>

NextServer ==
  \/ \E event \in SubmitEvents : SendEventToServer(event)
  \/ SendEventToServer(UndoMoveEvent)

\* ------------------------------------------------------------------------
\* part_001 driven by the transport: recieveData
\* ------------------------------------------------------------------------
\* JSON.parse(JSON.stringify(envelope)) of an envelope of plain data
JSON_roundtrip(envelope) ==
  [target |-> envelope.target,
   event |-> [type |-> envelope.event.type,
              move |-> [k \in Seats |-> [playerIndex |-> envelope.event.move[k].playerIndex,
                                        move |-> envelope.event.move[k].move]]]]

\* a remote peer's sendEventToServer: sendData({ target: "server", event })
RemoteSend(event) ==
  /\ program = "transport"
  /\ Cardinality(wire) < MaxRemote
  /\ wire' = wire \cup {[envelope |-> [target |-> "server", event |-> event],
                         deliveries |-> 0, pushed |-> 0, applyMoves |-> 0]}
  /\ UNCHANGED <<program, outcome, stateVars, server, clients, stats, blindVars>>

\* dataChannel.onmessage: recieveData(data) for an envelope the transport holds;
\* the transport may deliver the envelope again
RecieveData(m) ==
  /\ program = "transport"
  /\ m \in wire
  /\ m.deliveries < MaxDeliveries
  /\ LET parsedData == JSON_roundtrip(m.envelope)
         after == HandledStats(parsedData.event)
     IN /\ parsedData.target = "server"
        /\ MayHandle(parsedData.event)
        /\ server' = GameServer_game(server, parsedData.event)
        /\ clients' = HandledClients(parsedData.event)
        /\ stats' = after
        /\ wire' = (wire \ {m}) \cup
             {[m EXCEPT !.deliveries = @ + 1,
                        !.pushed = @ + Len(GameServer_game(server, parsedData.event).history)
                                     - Len(server.history),
                        !.applyMoves = @ + Len(GameServer_broadcast(server, parsedData.event))]}
  /\ UNCHANGED <<program, outcome, stateVars, blindVars>>

\* the commands a remote peer in seat 1 can have staged
RemoteCommands == {Command(1, m) : m \in Moves}

\* the selectMove events a remote peer's submitMoves can send
RemoteEvents ==
  {SelectMoveEvent([k \in Seats |-> IF k = 0 THEN first ELSE second]) :
     first \in RemoteCommands, second \in RemoteCommands}

NextTransport ==
  \/ \E event \in RemoteEvents : RemoteSend(event)
  \/ \E m \in wire : RecieveData(m)

\* part_001 in each of the three ways it is driven
NextCarry == NextHotseat \/ NextServer \/ NextTransport

\* the program whose server is handed events directly
SpecServerOnly == InitOf({"server"}) /\ [][NextServer]_vars

SpecCarry ==
  InitOf({"hotseat", "server", "transport"}) /\ [][NextCarry]_vars

\* ------------------------------------------------------------------------
\* part_001, the handlers called with events of any type
\* ------------------------------------------------------------------------
EventTypes == {"selectMove", "undoMove", "applyMoves", "undoMoves", "ping"}

\* an event of type t that carries no commands
BareEvent(t) == [type |-> t, move |-> [i \in Seats |-> NullCommand]]

\* server.handle(event) called with an event of any type
ServerHandle(event) ==
  /\ program = "handlers"
  /\ MayHandle(event)
  /\ server' = GameServer_game(server, event)
  /\ clients' = HandledClients(event)
  /\ stats' = HandledStats(event)
  /\ outcome' = [call |-> "GameServer.handle", type |-> event.type,
                 error |-> GameServer_handle_raises(event)]
  /\ UNCHANGED <<program, stateVars, wire, blindVars>>

\* clients[i].handle(event) called with an event that is not the server's broadcast
ClientHandle(i, event) ==
  /\ program = "handlers"
  /\ clients' = [clients EXCEPT ![i] = GameClient_handle(clients[i], event)]
  /\ outcome' = [call |-> "GameClient.handle", type |-> event.type,
                 error |-> GameClient_handle_raises(event)]
  /\ UNCHANGED <<program, stateVars, server, wire, stats, blindVars>>

NextHandlers ==
  \/ \E event \in SubmitEvents : ServerHandle(event)
  \/ \E t \in EventTypes \ {"selectMove"} : ServerHandle(BareEvent(t))
  \/ \E i \in Seats, t \in EventTypes \ {"applyMoves", "undoMoves"} :
       ClientHandle(i, BareEvent(t))
  \/ Tick

SpecHandlers == InitOf({"handlers"}) /\ [][NextHandlers]_vars

\* ------------------------------------------------------------------------
\* script.js as it runs in local mode: one server, one replica, the frame loop
\* ------------------------------------------------------------------------
core(players) ==
  [i \in Seats |-> [health |-> players[i].health,
                    position |-> players[i].position,
                    stance |-> players[i].stance]]

\* client.sendEventToServer(event) with a local server: server.handle(event), whose
\* broadcast the replica handles at once
BlindHandle(event) ==
  LET sent == Blind_GameServer_broadcast(bServer, event)
      after == Blind_GameServer_game(bServer, event)
      grew == IF Len(after.moveHistory) > Len(bServer.moveHistory) THEN 1 ELSE 0
      shrank == IF Len(after.moveHistory) < Len(bServer.moveHistory) THEN 1 ELSE 0
      applies == Cardinality({k \in DOMAIN sent : sent[k].type = "applyMoves"})
      undos == Cardinality({k \in DOMAIN sent : sent[k].type = "undoMoves"})
      staged == IF event.type = "selectMove"
                  THEN [bServer.selectedMoves EXCEPT ![event.move.playerIndex] = event.move]
                  ELSE bServer.selectedMoves
  IN /\ program = "blind"
     /\ last.handled < MaxBlindEvents
     /\ event.type = "selectMove" => Len(bServer.moveHistory) < MaxBlindRounds
     /\ bServer' = after
     /\ bClient' = IF sent = <<>> THEN bClient ELSE Blind_GameClient_handle(bClient, sent[1])
     /\ bTrail' = IF grew = 1 THEN Append(bTrail, core(bServer.players))
                  ELSE IF shrank = 1 THEN SubSeq(bTrail, 1, Len(bTrail) - 1)
                  ELSE bTrail
     /\ last' = [type |-> event.type,
                 staged |-> Cardinality({i \in Seats : staged[i] # NoCommand}),
                 replaced |-> /\ event.type = "selectMove"
                              /\ bServer.selectedMoves[event.move.playerIndex] # NoCommand,
                 changed |-> IF event.type = "selectMove"
                               THEN Blind_Game_apply_changed([bServer EXCEPT !.selectedMoves = staged])
                               ELSE Blind_Game_undo_changed(bServer),
                 grew |-> grew,
                 shrank |-> shrank,
                 applyMoves |-> applies,
                 undoMoves |-> undos,
                 handled |-> last.handled + 1]
     /\ stats' = [stats EXCEPT !.applyMovesLessPushed = @ + applies - grew,
                               !.undoMovesLessPopped = @ + undos - shrank]
     /\ UNCHANGED <<program, outcome, stateVars, carryVars>>

\* makeActionButton's onclick for an attack button
AttackButton(playerIndex, moveName) ==
  BlindHandle([type |-> "selectMove", move |-> attackCommand(bClient, playerIndex, moveName)])

\* makeActionButton's onclick for a movement button
MoveButton(playerIndex, moveName) ==
  BlindHandle([type |-> "selectMove", move |-> moveCommand(bClient, playerIndex, moveName)])

\* keyPressed(event), without rtcClient
keyPressed(eventCode) ==
  CASE eventCode \in {"ArrowDown", "KeyS"} ->
         BlindHandle([type |-> "selectMove",
                      move |-> stanceCommand(bClient, getPlayer(eventCode))])
    [] eventCode = "Backspace" -> BlindHandle([type |-> "undoMove"])
    [] eventCode \in {"KeyW", "KeyA", "KeyD", "ArrowUp", "ArrowLeft", "ArrowRight"} ->
         BlindHandle([type |-> "selectMove",
                      move |-> moveCommand(bClient, getPlayer(eventCode),
                                           eventToMoveType(eventCode))])
    [] eventCode \in {"Space", "Enter"} ->
         BlindHandle([type |-> "selectMove",
                      move |-> attackCommand(bClient, getPlayer(eventCode), "NeutralAttack")])

\* tick: const moved = game.apply() on the replica
BlindTick ==
  /\ program = "blind"
  /\ bClient' = Blind_Game_apply(bClient)
  /\ UNCHANGED <<program, outcome, stateVars, carryVars, stats, bServer, bTrail, last>>

KeyCodes ==
  {"KeyW", "KeyA", "KeyS", "KeyD", "Space", "ArrowUp", "ArrowLeft", "ArrowDown",
   "ArrowRight", "Enter", "Backspace"}

NextBlind ==
  \/ \E i \in Seats, moveName \in {"SwitchAttack", "NeutralAttack"} : AttackButton(i, moveName)
  \/ \E i \in Seats, moveName \in {"Retreat", "Forward", "Charge"} : MoveButton(i, moveName)
  \/ \E eventCode \in KeyCodes : keyPressed(eventCode)
  \/ BlindTick

SpecBlind == InitOf({"blind"}) /\ [][NextBlind]_vars

\* ------------------------------------------------------------------------
\* script.js started without localMode: rtcClient is set, server is null, and the
\* replica is driven by what the data channel delivers
\* ------------------------------------------------------------------------
\* the commands the buttons of a process whose replica is `game` build for a player
PeerCommands(game, playerIndex) ==
  {attackCommand(game, playerIndex, n) : n \in {"SwitchAttack", "NeutralAttack"}}
    \cup {moveCommand(game, playerIndex, n) : n \in {"Retreat", "Forward", "Charge"}}
    \cup {stanceCommand(game, playerIndex)}

\* the events an envelope can carry: the four of the protocol, built by a peer whose
\* replica agrees with this one, and one of unknown type
PeerEvents ==
  {[type |-> "selectMove", move |-> m] : m \in PeerCommands(bClient, 0) \cup PeerCommands(bClient, 1)}
    \cup {[type |-> "applyMoves", moves |-> [i \in Seats |-> IF i = 0 THEN m0 ELSE m1]] :
            m0 \in PeerCommands(bClient, 0), m1 \in PeerCommands(bClient, 1)}
    \cup {[type |-> t] : t \in {"undoMove", "undoMoves", "ping"}}

PeerEnvelopes == {[target |-> t, event |-> e] : t \in {"server", "client"}, e \in PeerEvents}

\* dataChannel.onmessage: recieveData(data), parsedData being what JSON.parse returns
PeerRecieveData(parsedData) ==
  /\ program = "peer"
  /\ last.handled < MaxPeerEvents
  /\ parsedData.event.type = "applyMoves" => Len(bClient.moveHistory) < MaxBlindRounds
  /\ bClient' = recieveData(bClient, parsedData)
  /\ outcome' = [call |-> "recieveData", type |-> parsedData.event.type,
                 error |-> recieveData_raises(parsedData)]
  /\ last' = [last EXCEPT !.handled = @ + 1]
  /\ UNCHANGED <<program, stateVars, carryVars, stats, bServer, bTrail>>

\* tick: const moved = game.apply() on the replica
PeerTick ==
  /\ program = "peer"
  /\ Len(bClient.moveHistory) < MaxBlindRounds
  /\ bClient' = Blind_Game_apply(bClient)
  /\ UNCHANGED <<program, outcome, stateVars, carryVars, stats, bServer, bTrail, last>>

NextPeer ==
  \/ \E parsedData \in PeerEnvelopes : PeerRecieveData(parsedData)
  \/ PeerTick

SpecPeer == InitOf({"peer"}) /\ [][NextPeer]_vars

\* ------------------------------------------------------------------------
\* A bare GameState of script.js, driven by apply and undo with the commands the
\* Game that owns it builds from its players
\* ------------------------------------------------------------------------
\* GameState.apply(moves) of script.js on the bare GameState
BlindStateApply(m0, m1) ==
  /\ program = "BlindState"
  /\ gsRounds < MaxBlindStateRounds
  /\ gsPlayers' = Blind_GameState_apply(gsPlayers, [i \in Seats |-> IF i = 0 THEN m0 ELSE m1])
  /\ gsDeltas' = <<[i \in Seats |-> IF i = 0 THEN m0 ELSE m1]>>
  /\ gsRounds' = gsRounds + 1
  /\ UNCHANGED <<program, outcome, twins, carryVars, stats, blindVars>>

\* GameState.undo(moves) of script.js with the latest round not yet undone
BlindStateUndo ==
  /\ program = "BlindState"
  /\ Len(gsDeltas) > 0
  /\ gsPlayers' = Blind_GameState_undo(gsPlayers, gsDeltas[Len(gsDeltas)])
  /\ gsDeltas' = <<>>
  /\ gsRounds' = gsRounds - 1
  /\ UNCHANGED <<program, outcome, twins, carryVars, stats, blindVars>>

NextBlindState ==
  \/ \E m0 \in PeerCommands([players |-> gsPlayers], 0),
        m1 \in PeerCommands([players |-> gsPlayers], 1) : BlindStateApply(m0, m1)
  \/ BlindStateUndo

SpecBlindState == InitOf({"BlindState"}) /\ [][NextBlindState]_vars

\* ------------------------------------------------------------------------
\* Every program of the repository
\* ------------------------------------------------------------------------
Next == NextState \/ NextTwins \/ NextCarry \/ NextBlind

Spec ==
  /\ InitOf({"GameState", "twins", "hotseat", "server", "transport", "blind"})
  /\ [][Next]_vars

\* GameState.apply of both engines: the bare GameState of part_001 and script.js
NextApply == NextState \/ NextBlind

\* every program of part_001: the bare GameState and the three with a server
NextGameStates == NextState \/ NextCarry

SpecGameStates ==
  InitOf({"GameState", "hotseat", "server", "transport"}) /\ [][NextGameStates]_vars

SpecApply == InitOf({"GameState", "blind"}) /\ [][NextApply]_vars

\* the servers of both engines: part_001 in its three ways and script.js
NextServers == NextCarry \/ NextBlind

SpecServers ==
  InitOf({"hotseat", "server", "transport", "blind"}) /\ [][NextServers]_vars

\* ------------------------------------------------------------------------
\* Properties
\* ------------------------------------------------------------------------
\* C1: in part_001, after the server has handled any sequence of selectMove and
\* undoMove events, each client's Game has the server's players' position,
\* stance and health, the server's nextCommands and a history of the same length.
C1_ReplicasEqualServer ==
  program \in {"hotseat", "server", "transport"} =>
    \A i \in Seats :
      /\ core(clients[i].game.players) = core(server.players)
      /\ clients[i].game.nextCommands = server.nextCommands
      /\ Len(clients[i].game.history) = Len(server.history)

\* the server has resolved a round and undone it, and the replicas followed
C1_Witness ==
  /\ program = "server"
  /\ Len(server.history) = 0
  /\ server.players[0].nextPosition = server.players[0].position
  /\ \A i \in Seats : /\ clients[i].changed
                      /\ core(clients[i].game.players) = core(server.players)

\* C2: in the snapshot engine, for every reachable GameState and every pair of
\* commands, apply followed by undo of the returned deltas leaves the health,
\* position and stance of both players as they were.
C2_UndoInvertsApply ==
  program = "GameState" =>
    \A m0 \in Commands, m1 \in Commands :
      LET r == GameState_apply(gsPlayers, [i \in Seats |-> IF i = 0 THEN m0 ELSE m1])
      IN core(GameState_undo(r.players, r.deltas)) = core(gsPlayers)

\* a state after a round in which some round costs a player health and moves both
C2_Witness ==
  /\ program = "GameState"
  /\ gsRounds > 0
  /\ \E m0 \in Commands, m1 \in Commands :
       LET r == GameState_apply(gsPlayers, [i \in Seats |-> IF i = 0 THEN m0 ELSE m1])
       IN /\ r.players[1].health < gsPlayers[1].health
          /\ r.players[0].stance # gsPlayers[0].stance
          /\ r.players[1].position # gsPlayers[1].position
          /\ core(GameState_undo(r.players, r.deltas)) = core(gsPlayers)

\* C3: in script.js, Game.undo gives both players the health, position and
\* stance they had before the round it undoes (the claim as stated).
C3_BlindUndoRestores ==
  [][(last'.handled # last.handled /\ last'.type = "undoMove" /\ last'.changed)
       => core(bServer'.players) = bTrail[Len(bTrail)]]_vars

\* the commands the buttons and keys of script.js build for a player from the replica
BlindInputs(game, playerIndex) ==
  {attackCommand(game, playerIndex, n) : n \in {"SwitchAttack", "NeutralAttack"}}
    \cup {moveCommand(game, playerIndex, n) : n \in {"Retreat", "Forward", "Charge"}}
    \cup {stanceCommand(game, playerIndex)}

\* the collision rule for one round of part_001's GameState.apply
CollisionRule(players, moves) ==
  LET intended == intendedPlayers(players, moves)
      after == GameState_apply(players, moves).players
  IN IF intended[0].nextPosition >= intended[1].nextPosition
       THEN \A i \in Seats : after[i].position = players[i].position
       ELSE \A i \in Seats : after[i].position = intended[i].nextPosition

\* the collision rule for one round of script.js's GameState.apply
Blind_CollisionRule(players, moves) ==
  LET intended == Blind_intendedPlayers(players, moves)
      after == Blind_GameState_apply(players, moves)
  IN IF intended[0].nextPosition >= intended[1].nextPosition
       THEN \A i \in Seats : after[i].position = players[i].position
       ELSE \A i \in Seats : after[i].position = intended[i].nextPosition

\* C4: in GameState.apply of both engines, if after clamping the nextPosition of
\* player 0 is >= that of player 1, no position changes in the round, whatever the
\* two commands are; otherwise both positions become the clamped nextPosition.
\* It is stated of every pair of commands on the bare GameState of part_001 and of
\* every round the server of script.js can resolve next.
C4_MovementCollisionRule ==
  /\ program = "GameState" =>
       \A m0 \in Commands, m1 \in Commands :
         CollisionRule(gsPlayers, [i \in Seats |-> IF i = 0 THEN m0 ELSE m1])
  /\ program = "blind" =>
       \A i \in Seats :
         bServer.selectedMoves[1 - i] # NoCommand =>
           \A m \in BlindInputs(bClient, i) :
             Blind_CollisionRule(bServer.players, [bServer.selectedMoves EXCEPT ![i] = m])

\* the latest round of the bare GameState was suppressed by a collision: the targets
\* are still set, player 0's not below player 1's, and no position has changed
C4_Witness ==
  /\ program = "GameState"
  /\ Len(gsDeltas) > 0
  /\ gsPlayers[0].nextPosition # null
  /\ gsPlayers[0].nextPosition > gsPlayers[1].nextPosition
  /\ gsPlayers[1].nextPosition # null
  /\ \A i \in Seats : gsDeltas[Len(gsDeltas)].after[i].position
                        = gsDeltas[Len(gsDeltas)].before[i].position

\* every Player object of part_001
CarryPlayers ==
  {gsPlayers[i] : i \in Seats} \cup {server.players[i] : i \in Seats}
    \cup {clients[c].game.players[i] : c \in Seats, i \in Seats}

\* C5: in part_001, after any sequence of resolved rounds and undos, both
\* players' position lies in 0 .. arenaSize - 1.
C5_PositionInBounds ==
  \A p \in CarryPlayers : p.position >= 0 /\ p.position <= arenaSize - 1

\* a player stands where only clamping can have kept it: on the edge cell, with the
\* latest round having left it there
C5_Witness ==
  /\ program = "GameState"
  /\ Len(gsDeltas) > 0
  /\ gsPlayers[1].position = arenaSize - 1
  /\ gsDeltas[Len(gsDeltas)].before[1].position = arenaSize - 1
  /\ gsDeltas[Len(gsDeltas)].before[0].position # gsPlayers[0].position

\* C6: in part_001, after any sequence of resolved rounds and undos, each
\* player's health is >= 0 (the claim as stated).
C6_HealthNonNegative ==
  \A p \in CarryPlayers : p.health >= 0

\* C7: between events, after any sequence of resolved rounds and undos, both
\* players' nextPosition is null (the claim as stated).
C7_NextPositionNull ==
  /\ \A p \in CarryPlayers : p.nextPosition = null
  /\ \A i \in Seats : bServer.players[i].nextPosition = null
                      /\ bClient.players[i].nextPosition = null

\* C8: in script.js, when the server has handled a selectMove with fewer than both
\* players staged, Game.apply returned false, nothing was appended to moveHistory
\* and no applyMoves was broadcast; with both staged it returned true, one entry
\* was appended, one applyMoves was broadcast and the staging buffer is empty.
C8_RoundCompletionGating ==
  (program = "blind" /\ last.type = "selectMove") =>
    IF last.staged < 2
      THEN ~last.changed /\ last.grew = 0 /\ last.applyMoves = 0
      ELSE /\ last.changed
           /\ last.grew = 1
           /\ last.applyMoves = 1
           /\ \A i \in Seats : bServer.selectedMoves[i] = NoCommand

\* the server has just resolved a round on the second player's selectMove
C8_Witness ==
  /\ program = "blind"
  /\ last.type = "selectMove"
  /\ last.staged = 2
  /\ last.changed
  /\ Len(bServer.moveHistory) = 1

\* C9: over any sequence of handled events, the applyMoves events broadcast are as
\* many as the entries ever appended to the server's history and the undoMoves
\* events as many as the entries ever popped, in both engines.
C9_BroadcastsMatchHistory ==
  stats.applyMovesLessPushed = 0 /\ stats.undoMovesLessPopped = 0

\* the blind server has just undone a round; or part_001's has resolved a round, undone
\* it, and been asked to undo on the empty history
C9_Witness ==
  \/ program = "blind" /\ last.type = "undoMove" /\ last.changed /\ last.handled >= 3
  \/ /\ program = "server"
     /\ Len(server.history) = 0
     /\ server.players[0].nextPosition = server.players[0].position

\* C10: when the transport delivers the same selectMove envelope more than once,
\* the server's history grows by one entry and one applyMoves is broadcast for
\* it, not one per delivery (the claim as stated).
C10_OneRoundPerEnvelope ==
  \A m \in wire : m.pushed <= 1 /\ m.applyMoves <= 1

\* undoMove reaching the server of part_001 on an empty history: nothing is
\* broadcast and the server's Game and every client are as before
UndoOnEmptyChangesNothing ==
  (program \in {"hotseat", "server", "transport"} /\ Len(server.history) = 0) =>
    /\ GameServer_broadcast(server, UndoMoveEvent) = <<>>
    /\ GameServer_game(server, UndoMoveEvent) = server
    /\ HandledClients(UndoMoveEvent) = clients

\* C11: in part_001, when undoMove reaches the server on an empty history, Game.undo
\* returns false, the server broadcasts nothing, and the server's Game and every
\* client (players, nextCommands, history) are as before.
C11_UndoOnEmptyIsNoOp ==
  /\ UndoOnEmptyChangesNothing
  /\ (program \in {"hotseat", "server", "transport"} /\ Len(server.history) = 0) =>
       Game_undo_returns(server) = "false"

\* after k resolved rounds of part_001's Game, k undos restore both players' health,
\* position and stance to the initial values and empty the history, and one
\* further undo changes nothing
UndoAllRestoresInitial ==
  program \in {"hotseat", "server", "transport"} =>
    LET undone == Game_undoAll(server)
    IN /\ core(undone.players) = core(NewPlayers)
       /\ Len(undone.history) = 0
       /\ Game_undo(undone) = undone

\* C12: for every k and every k resolved rounds from the initial Game, k calls of
\* Game.undo restore both players' health, position and stance to the initial
\* values and empty the history; one further undo returns false and changes nothing.
C12_UndoAfterRounds ==
  /\ UndoAllRestoresInitial
  /\ program \in {"hotseat", "server", "transport"} =>
       Game_undo_returns(Game_undoAll(server)) = "false"

C14_UnknownClientEventRaises ==
  program = "handlers" =>
    \A i \in Seats, t \in EventTypes \ {"applyMoves", "undoMoves"} :
      /\ GameClient_handle_raises(BareEvent(t)) # "none"
      /\ GameClient_handle(clients[i], BareEvent(t)).game = clients[i].game
      /\ GameClient_handle(clients[i], BareEvent(t)).changed = clients[i].changed

\* client 0, with a round in its history and its changed flag consumed, has just
\* been given an event of unknown type
C14_Witness ==
  /\ program = "handlers"
  /\ outcome.call = "GameClient.handle"
  /\ outcome.type = "ping"
  /\ outcome.error = "Unknown client event"
  /\ Len(clients[0].game.history) > 0
  /\ ~clients[0].changed

\* C15: an event of unknown type (neither selectMove nor undoMove) reaching
\* GameServer.handle raises an error.
C15_UnknownServerEventRaises ==
  (outcome.call = "GameServer.handle" /\ outcome.type \notin {"selectMove", "undoMove"})
    => outcome.error # "none"

\* C16: when recieveData gets an envelope with target "server" in a process whose
\* server is null, it raises an error and the client's Game (players, staging
\* buffer, history) is as before.
C16_MissingServerRaises ==
  program = "peer" =>
    \A parsedData \in PeerEnvelopes :
      parsedData.target = "server" =>
        /\ recieveData_raises(parsedData) # "none"
        /\ recieveData(bClient, parsedData) = bClient

\* a process without a server, its replica holding a resolved round, has just been
\* given an undoMove envelope for the server
C16_Witness ==
  /\ program = "peer"
  /\ outcome.call = "recieveData"
  /\ outcome.type = "undoMove"
  /\ outcome.error = "Has no server!"
  /\ Len(bClient.moveHistory) > 0

\* C17: hasUpdated returns false before any event was handled; once
\* GameClient.handle has processed one or more applyMoves/undoMoves events the next
\* call returns true, and every later call returns false until another event is
\* handled.
C17_HasUpdatedConsumedOnce ==
  program \in {"hotseat", "server", "transport"} =>
    \A i \in Seats :
      /\ hasUpdated_returns(clients[i]) = stats.unseen[i]
      /\ ~hasUpdated_returns(hasUpdated(clients[i]))

\* the frame loop has consumed client 0's flag after a round; client 1, whose
\* hasUpdated is never called, still holds its own
C17_Witness ==
  /\ program = "hotseat"
  /\ Len(server.history) > 0
  /\ ~clients[0].changed
  /\ clients[1].changed

\* C18: for a client that is the active player and a move other than Submit,
\* selectMove nulls a filled slot that already holds the move and leaves the other
\* slot alone; otherwise it sets the lowest-index null slot to {playerIndex, move};
\* otherwise (both slots hold other moves) selectedMoves is unchanged.
C18_SelectMoveToggle ==
  program = "hotseat" =>
    \A i \in Seats, move \in Moves :
      clients[i].playerIndex = activePlayer(clients[i].game) =>
        LET sel == clients[i].selectedMoves
            after == stageMove(clients[i], move)
            held == {k \in Seats : sel[k] # NullCommand /\ sel[k].move = move}
            empty == {k \in Seats : sel[k] = NullCommand}
        IN IF held # {}
             THEN \E k \in held : after[k] = NullCommand /\ after[1 - k] = sel[1 - k]
           ELSE IF empty # {}
             THEN LET k == CHOOSE k \in empty : \A j \in empty : k <= j
                  IN /\ after[k] = [playerIndex |-> clients[i].playerIndex, move |-> move]
                     /\ after[1 - k] = sel[1 - k]
           ELSE after = sel

\* the active client has deselected the move of slot 0 while slot 1 stays filled
C18_Witness ==
  /\ program = "hotseat"
  /\ activePlayer(clients[0].game) = 0
  /\ clients[0].selectedMoves[0] = NullCommand
  /\ clients[0].selectedMoves[1] # NullCommand

\* C19: submitMoves sends nothing and keeps selectedMoves while a staging slot is
\* null; with both slots filled it sends exactly one selectMove event carrying the
\* two staged commands in slot order, and selectedMoves becomes [null, null].
C19_SubmitMoves ==
  program = "hotseat" =>
    \A i \in Seats :
      LET sel == clients[i].selectedMoves
          sent == submitMoves_sent(clients[i])
          after == submitMoves_selectedMoves(clients[i])
      IN IF \E k \in Seats : sel[k] = NullCommand
           THEN sent = <<>> /\ after = sel
           ELSE /\ Len(sent) = 1
                /\ sent[1].type = "selectMove"
                /\ \A k \in Seats : sent[1].move[k] = sel[k]
                /\ \A k \in Seats : after[k] = NullCommand

\* a submission has been resolved and cleared its client's staging, and the other
\* client holds two different staged commands
C19_Witness ==
  /\ program = "hotseat"
  /\ Len(server.history) > 0
  /\ \A k \in Seats : clients[0].selectedMoves[k] = NullCommand
  /\ \A k \in Seats : clients[1].selectedMoves[k] # NullCommand
  /\ clients[1].selectedMoves[0] # clients[1].selectedMoves[1]

\* C20: with two local clients, in every history entry of the server's Game the
\* command in slot i has playerIndex i, whatever the interleaving of selectMove,
\* Submit and undoMove by the two clients.
C20_OneCommandPerPlayer ==
  program = "hotseat" =>
    \A k \in 1 .. Len(server.history) :
      \A i \in Seats : server.history[k].moves[i].playerIndex = i

\* C21: in script.js the replica only stages the broadcast moves and applies them on
\* its next frame tick; whatever the interleaving of server events and ticks, once a
\* tick has run the replica's players {position, stance, health} and the length of
\* its moveHistory equal the server's.  Stated on what the next tick leaves.
C21_DeferredReplicaApply ==
  program = "blind" =>
    LET ticked == Blind_Game_apply(bClient)
    IN /\ core(ticked.players) = core(bServer.players)
       /\ Len(ticked.moveHistory) = Len(bServer.moveHistory)

\* C22: in script.js a player whose command in a resolved round is not a move
\* command (attack or changeStance) has the same position after the round as
\* before it, in every reachable state.
C22_NonMoveKeepsPosition ==
  program = "BlindState" =>
    \A m0 \in PeerCommands([players |-> gsPlayers], 0),
       m1 \in PeerCommands([players |-> gsPlayers], 1) :
      LET moves == [i \in Seats |-> IF i = 0 THEN m0 ELSE m1]
          after == Blind_GameState_apply(gsPlayers, moves)
      IN \A i \in Seats :
           moves[i].type # "move" => after[i].position = gsPlayers[i].position

\* the Games of part_001 that exist in the running program
CarryGames == {server} \cup {clients[i].game : i \in Seats}

\* C23: in every state reachable by Game.applyMoves (with two non-null commands)
\* and Game.undo exactly one slot of nextCommands is null, so activePlayer() is 0
\* or 1; the constructor leaves slot 0 null and Advance of player 1 in slot 1.
C23_OneOpenSlot ==
  /\ NewGame.nextCommands[0] = NullCommand
  /\ NewGame.nextCommands[1] = [playerIndex |-> 1, move |-> "Advance"]
  /\ program \in {"hotseat", "server", "transport"} =>
       \A game \in CarryGames :
         /\ Cardinality({i \in Seats : game.nextCommands[i] = NullCommand}) = 1
         /\ activePlayer(game) \in Seats

\* two rounds have been resolved by the server: the open slot is player 0's again
\* and player 1's second command is carried
C23_Witness ==
  /\ program = "server"
  /\ Len(server.history) = 2
  /\ server.nextCommands[0] = NullCommand
  /\ server.nextCommands[1] # NullCommand
  /\ server.nextCommands[1] # NewGame.nextCommands[1]

\* C24: when Game.applyMoves(first, second) runs with active player a, the round
\* resolved and recorded consists of `first` in slot a and the carried command in
\* slot 1-a; afterwards nextCommands[a] = second, nextCommands[1-a] = null and
\* activePlayer() = 1-a.  The carried command of a state is the `second` of the
\* call that led to it, so the same statement in the successor state says that
\* `second` is executed in the next resolved round, with the other player active.
\* (first, second) ranges over the pairs a client's submitMoves can send.
C24_AlternatingCarry ==
  program = "server" =>
    LET a == activePlayer(server)
    IN /\ a \in Seats
       /\ server.nextCommands[1 - a] # NullCommand
       /\ \A event \in SubmitEvents :
            LET first == event.move[0]
                second == event.move[1]
                round == [i \in Seats |-> IF i = a THEN first ELSE server.nextCommands[i]]
                resolved == GameState_apply(server.players, round)
            IN Game_applyMoves(server, first, second) =
                 [players |-> resolved.players,
                  history |-> Append(server.history,
                                     [moves |-> round, deltas |-> resolved.deltas]),
                  nextCommands |-> [i \in Seats |-> IF i = a THEN second ELSE NullCommand]]
       /\ \A second \in Commands :
            activePlayer([server EXCEPT !.nextCommands =
                            [i \in Seats |-> IF i = a THEN second ELSE NullCommand]]) = 1 - a

\* the server has resolved two rounds, the second with player 1 active and with
\* the command player 0 carried over from the first, a different move
C24_Witness ==
  /\ program = "server"
  /\ Len(server.history) = 2
  /\ activePlayer(server) = 0
  /\ server.history[2].moves[0].playerIndex = 0
  /\ server.history[2].moves[0].move # server.history[1].moves[0].move
  /\ server.history[2].moves[1].playerIndex = 1

\* C25: for every reachable Game with active player a and buffer B,
\* applyMoves(first, second) followed by undo() returns true and leaves
\* nextCommands equal to B (slot a null, slot 1-a holding the same carried
\* command) and activePlayer() = a.
C25_UndoRestoresTurn ==
  program = "handlers" =>
    \A event \in SubmitEvents :
      LET applied == Game_applyMoves(server, event.move[0], event.move[1])
          undone == Game_undo(applied)
      IN /\ Game_undo_returns(applied) = "true"
         /\ undone.nextCommands = server.nextCommands
         /\ undone.nextCommands[activePlayer(server)] = NullCommand
         /\ undone.nextCommands[1 - activePlayer(server)] # NullCommand
         /\ activePlayer(undone) = activePlayer(server)
         /\ Len(undone.history) = Len(server.history)

\* the server has resolved a round and undoMove has taken it back: a replica that
\* is never ticked still holds its changed flag, and the buffer is the initial one
C25_Witness ==
  /\ program = "handlers"
  /\ outcome.call = "GameServer.handle"
  /\ outcome.type = "undoMove"
  /\ clients[1].changed
  /\ Len(server.history) = 0
  /\ server.nextCommands = NewGame.nextCommands

\* C26: in script.js undoMove on an empty history changes nothing on the server:
\* an intent already staged by one player remains staged, so the other player's
\* next selectMove resolves a round.
C26_BlindUndoOnEmptyKeepsStaged ==
  (program = "blind" /\ Len(bServer.moveHistory) = 0) =>
    LET undone == Blind_GameServer_game(bServer, [type |-> "undoMove"])
    IN /\ undone = bServer
       /\ \A i \in Seats :
            bServer.selectedMoves[i] # NoCommand =>
              \A m \in BlindInputs(bClient, 1 - i) :
                Len(Blind_GameServer_game(undone, [type |-> "selectMove", move |-> m]).moveHistory) = 1

\* the cells a move of the given name goes toward the opponent
MoveOffset(name) ==
  CASE name = "Charge" -> 2
    [] name = "Forward" -> 1
    [] name = "Retreat" -> 0 - 1

\* C27: in script.js, whatever the interleaving of key presses, server
\* resolutions and replica ticks, a resolved Charge/Forward/Retreat targets the
\* position the server held for that player when the round resolved plus the
\* move's offset (+2, +1, -1 cells toward the opponent), before clamping and the
\* collision rule.  Stated of every round in the server's moveHistory.
C27_MovesTargetServerPosition ==
  program = "blind" =>
    \A k \in 1 .. Len(bServer.moveHistory) :
      \A i \in Seats :
        LET command == bServer.moveHistory[k][i]
        IN command.type = "move" =>
             command.params.nextPosition =
               bTrail[k][i].position
                 + (IF i = 0 THEN MoveOffset(command.params.name)
                             ELSE 0 - MoveOffset(command.params.name))

\* what a selectMove of player i carrying m does to a server that holds an intent
\* of player i only: m replaces it and no round resolves; and what the opponent's
\* selectMove then does: one round, made of the latest intent of each player
LatestIntentWins ==
  program = "blind" =>
    \A i \in Seats :
      (bServer.selectedMoves[i] # NoCommand /\ bServer.selectedMoves[1 - i] = NoCommand) =>
        /\ \A m \in BlindInputs(bClient, i) :
             LET again == Blind_GameServer_game(bServer, [type |-> "selectMove", move |-> m])
             IN /\ again.selectedMoves[i] = m
                /\ again.selectedMoves[1 - i] = NoCommand
                /\ again.moveHistory = bServer.moveHistory
                /\ again.players = bServer.players
                /\ Blind_GameServer_broadcast(bServer, [type |-> "selectMove", move |-> m]) = <<>>
        /\ \A m \in BlindInputs(bClient, 1 - i) :
             LET round == [k \in Seats |-> IF k = i THEN bServer.selectedMoves[i] ELSE m]
                 resolved == Blind_GameServer_game(bServer, [type |-> "selectMove", move |-> m])
             IN /\ resolved.moveHistory = Append(bServer.moveHistory, round)
                /\ resolved.players = Blind_GameState_apply(bServer.players, round)
                /\ \A k \in Seats : resolved.selectedMoves[k] = NoCommand

\* C28: in script.js an intent staged on the server is kept with no timeout (no
\* frame tick changes the server's staging); if the same player submits again
\* before the opponent, the new intent replaces the old one; when the opponent
\* submits, exactly one round resolves and it uses the latest intent of each.
C28_StagedIntentWaits ==
  /\ []LatestIntentWins
  /\ [][(program = "blind" /\ last'.handled = last.handled) => bServer' = bServer]_vars

\* player i has just replaced its staged intent and the opponent has none
C28_Witness ==
  /\ program = "blind"
  /\ last.type = "selectMove"
  /\ last.replaced
  /\ last.staged = 1
  /\ ~last.changed

\* selectMove with a move name on a client that is not the active player of its
\* replica leaves selectedMoves as it is
StagingGatedByTurn ==
  program = "hotseat" =>
    \A i \in Seats, move \in Moves :
      clients[i].playerIndex # activePlayer(clients[i].game) =>
        stageMove(clients[i], move) = clients[i].selectedMoves

\* C29: selectMove with a move other than Submit on a client whose playerIndex
\* differs from its replica's activePlayer() leaves selectedMoves unchanged; and
\* the players, nextCommands and history of the server's Game and of the replicas
\* change in no step of the hot-seat program other than a Submit with both slots
\* filled (which empties them and adds a round) or the Backspace key's undoMove
\* (which removes one).
C29_StagingGatedByTurn ==
  /\ []StagingGatedByTurn
  /\ [][(/\ program = "hotseat"
          /\ \/ server' # server
             \/ \E i \in Seats : clients'[i].game # clients[i].game)
        => \/ Len(server'.history) < Len(server.history)
           \/ /\ Len(server'.history) = Len(server.history) + 1
              /\ \E i \in Seats :
                   /\ \A k \in Seats : clients[i].selectedMoves[k] # NullCommand
                   /\ \A k \in Seats : clients'[i].selectedMoves[k] = NullCommand]_vars

\* a round has been resolved, client 0 is no longer the active player and holds
\* nothing staged, and client 1 has staged a move in its turn
C29_Witness ==
  /\ program = "hotseat"
  /\ Len(server.history) = 1
  /\ activePlayer(clients[0].game) = 1
  /\ \A k \in Seats : clients[0].selectedMoves[k] = NullCommand
  /\ clients[1].selectedMoves[0] # NullCommand
  /\ clients[1].selectedMoves[1] = NullCommand

\* C30: in part_001 the opponent of player i loses health in a round iff player i's
\* command is SwitchAttack and the absolute distance between the two positions
\* after movement resolution equals exactly 2 when i's stance at resolution is
\* high, or exactly 1 when it is low; at any other distance the attack misses.
\* A hit costs one health.
C30_SwitchAttackHitRule ==
  program = "GameState" =>
    \A m0 \in Moves, m1 \in Moves :
      LET moves == [i \in Seats |-> IF i = 0 THEN Command(0, m0) ELSE Command(1, m1)]
          after == GameState_apply(gsPlayers, moves).players
          distance == abs(after[0].position - after[1].position)
      IN \A i \in Seats :
           LET hits == /\ moves[i].move = "SwitchAttack"
                       /\ distance = (IF gsPlayers[i].stance = "high" THEN 2 ELSE 1)
           IN /\ (after[1 - i].health < gsPlayers[1 - i].health) <=> hits
              /\ after[1 - i].health = gsPlayers[1 - i].health - (IF hits THEN 1 ELSE 0)

\* the latest round of the bare GameState was a hit by player 0 in the low stance,
\* the players standing one cell apart
C30_Witness ==
  /\ program = "GameState"
  /\ Len(gsDeltas) > 0
  /\ gsDeltas[Len(gsDeltas)].before[0].stance = "low"
  /\ gsDeltas[Len(gsDeltas)].after[0].stance = "high"
  /\ abs(gsPlayers[0].position - gsPlayers[1].position) = 1
  /\ gsDeltas[Len(gsDeltas)].after[1].health = gsDeltas[Len(gsDeltas)].before[1].health - 1

\* a round of the bare GameState of part_001 in which player i plays SwitchAttack
\* and the opponent plays `other`
AttackRound(i, other) ==
  [k \in Seats |-> IF k = i THEN Command(i, "SwitchAttack") ELSE Command(k, other)]

\* C31: in part_001 SwitchAttack flips the attacker's stance (high to low, low to
\* high) every time it executes, whether or not it hits; so two SwitchAttacks by
\* the same player in consecutive rounds at the same distance never both hit.
C31_SwitchAttackFlipsStance ==
  program = "GameState" =>
    \A i \in Seats, other1 \in Moves, other2 \in Moves :
     \A first \in {GameState_apply(gsPlayers, AttackRound(i, other1)).players} :
      LET second == GameState_apply(first, AttackRound(i, other2)).players
          distance1 == abs(first[0].position - first[1].position)
          distance2 == abs(second[0].position - second[1].position)
      IN /\ first[i].stance # gsPlayers[i].stance
         /\ first[i].stance \in {"high", "low"}
         /\ second[i].stance = gsPlayers[i].stance
         /\ distance1 = distance2 =>
              ~(/\ first[1 - i].health < gsPlayers[1 - i].health
                /\ second[1 - i].health < first[1 - i].health)

\* player 0 has just hit with a SwitchAttack from the high stance at distance 2:
\* its stance is low now and the players still stand two cells apart
C31_Witness ==
  /\ program = "GameState"
  /\ Len(gsDeltas) > 0
  /\ gsDeltas[Len(gsDeltas)].before[0].stance = "high"
  /\ gsPlayers[0].stance = "low"
  /\ abs(gsPlayers[0].position - gsPlayers[1].position) = 2
  /\ gsPlayers[1].health = gsDeltas[Len(gsDeltas)].before[1].health - 1
  /\ gsDeltas[Len(gsDeltas)].before[1].position = gsPlayers[1].position
  /\ gsDeltas[Len(gsDeltas)].before[0].position = gsPlayers[0].position

\* GameState.apply of part_001 up to and including "see who's hit"
hitPlayers(players, moves) ==
  applyAttack(applyAttack(resolveMovement(intendedPlayers(players, moves)), moves[0]), moves[1])

\* C32: in every resolved round of part_001 each player's health decreases by
\* exactly 1 if that player was hit and is unchanged otherwise (never by more than
\* 1 per round), and isHit is false for both players after every round.
C32_DamagePhase ==
  program = "GameState" =>
    /\ \A i \in Seats : ~gsPlayers[i].isHit
    /\ \A m0 \in Moves, m1 \in Moves :
         LET moves == [i \in Seats |-> IF i = 0 THEN Command(0, m0) ELSE Command(1, m1)]
             hit == hitPlayers(gsPlayers, moves)
             after == GameState_apply(gsPlayers, moves).players
         IN \A i \in Seats :
              /\ hit[i].health = gsPlayers[i].health
              /\ after[i].health = gsPlayers[i].health - (IF hit[i].isHit THEN 1 ELSE 0)
              /\ gsPlayers[i].health - after[i].health \in {0, 1}
              /\ ~after[i].isHit

\* the latest round of the bare GameState hit both players: each has lost one health
C32_Witness ==
  /\ program = "GameState"
  /\ Len(gsDeltas) > 0
  /\ \A i \in Seats :
       /\ gsDeltas[Len(gsDeltas)].after[i].health = gsDeltas[Len(gsDeltas)].before[i].health - 1
       /\ gsPlayers[i].health = gsDeltas[Len(gsDeltas)].after[i].health
       /\ ~gsPlayers[i].isHit

\* C33: with d = +1 for player 0 and d = -1 for player 1, GameState.applyMove of
\* part_001 sets the player's target to position + d for Advance, position + 2d
\* for Charge, position - d for Retreat and to the current position for any other
\* move (SwitchAttack), before clamping and the collision rule; nothing else of
\* the two players changes.
C33_TargetsFromSeatIndex ==
  program = "GameState" =>
    \A i \in Seats, move \in Moves :
      LET d == IF i = 0 THEN 1 ELSE 0 - 1
          target == CASE move = "Advance" -> gsPlayers[i].position + d
                      [] move = "Charge" -> gsPlayers[i].position + 2 * d
                      [] move = "Retreat" -> gsPlayers[i].position - d
                      [] OTHER -> gsPlayers[i].position
          after == applyMove(gsPlayers, [playerIndex |-> i, move |-> move])
      IN /\ after[i].nextPosition = target
         /\ after = [gsPlayers EXCEPT ![i].nextPosition = target]

\* the latest round of the bare GameState moved player 0 two cells up (Charge) and
\* player 1 one cell up (Retreat), away from the cells they started the game on
C33_Witness ==
  /\ program = "GameState"
  /\ Len(gsDeltas) > 0
  /\ gsDeltas[Len(gsDeltas)].before[0].position # NewPlayers[0].position
  /\ gsPlayers[0].position = gsDeltas[Len(gsDeltas)].before[0].position + 2
  /\ gsPlayers[1].position = gsDeltas[Len(gsDeltas)].before[1].position + 1

\* C34: in part_001 a move whose target is below 0 or above arenaSize-1 is
\* replaced by the nearest edge cell, never rejected: the round still resolves
\* with the commands as given, a history entry is appended, and the players end
\* on the clamped targets unless the collision rule keeps everyone in place.
\* A player no command of the round is addressed to has no target (null) and
\* stays where it is.
C34_OutOfRangeIsClamped ==
  program = "server" =>
    \A first \in Commands :
      LET a == activePlayer(server)
          round == [i \in Seats |-> IF i = a THEN first ELSE server.nextCommands[i]]
          target == applyMove(applyMove(server.players, round[0]), round[1])
          clamped == intendedPlayers(server.players, round)
          after == Game_applyMoves(server, first, first)
      IN /\ Len(after.history) = Len(server.history) + 1
         /\ after.history[Len(after.history)].moves = round
         /\ \A i \in Seats :
              /\ clamped[i].nextPosition =
                   (CASE target[i].nextPosition = null -> server.players[i].position
                      [] target[i].nextPosition # null /\ target[i].nextPosition < 0 -> 0
                      [] target[i].nextPosition > arenaSize - 1 -> arenaSize - 1
                      [] OTHER -> target[i].nextPosition)
              /\ after.players[i].position \in
                   {clamped[i].nextPosition, server.players[i].position}
              /\ after.players[i].position \in 0 .. (arenaSize - 1)

\* the server's second round executed a Retreat of player 0 standing on cell 0:
\* the round is in the history, player 0 is still on cell 0 and player 1 has moved
C34_Witness ==
  /\ program = "server"
  /\ Len(server.history) = 2
  /\ server.history[2].moves[0] = [playerIndex |-> 0, move |-> "Retreat"]
  /\ server.history[2].deltas.before[0].position = 0
  /\ server.players[0].position = 0
  /\ server.players[1].position # server.history[2].deltas.before[1].position

\* the players arrays of every GameState of part_001
CarryStates == {gsPlayers, server.players} \cup {clients[c].game.players : c \in Seats}

\* C35: in part_001 the players never cross or share a cell: in every state
\* reachable by resolved rounds and undos, players[0].position <
\* players[1].position strictly.
C35_PlayersNeverCross ==
  \A players \in CarryStates : players[0].position < players[1].position

\* the players of the bare GameState stand on adjacent cells and the latest round,
\* in which both targets pointed past the other player, has left them there
C35_Witness ==
  /\ program = "GameState"
  /\ Len(gsDeltas) > 0
  /\ gsPlayers[1].position = gsPlayers[0].position + 1
  /\ gsPlayers[0].nextPosition = gsPlayers[1].position + 1
  /\ gsPlayers[1].nextPosition = gsPlayers[0].position - 1
  /\ \A i \in Seats : gsDeltas[Len(gsDeltas)].before[i].position = gsPlayers[i].position

\* C36: in every reachable Game of part_001 the `before` snapshot of the first
\* history entry equals the initial players' {health, position, stance}, the
\* `after` snapshot of each entry equals the `before` snapshot of the next, and
\* the `after` snapshot of the last entry equals the current players'.
C36_DeltaChain ==
  program \in {"hotseat", "server", "transport"} =>
    \A game \in CarryGames :
      LET n == Len(game.history)
      IN n > 0 =>
           /\ game.history[1].deltas.before = getPlayerStates(NewPlayers)
           /\ \A k \in 1 .. (n - 1) :
                game.history[k].deltas.after = game.history[k + 1].deltas.before
           /\ game.history[n].deltas.after = getPlayerStates(game.players)

\* the server's Game holds two rounds, each of which changed the players
C36_Witness ==
  /\ program = "server"
  /\ Len(server.history) = 2
  /\ \A k \in 1 .. 2 : server.history[k].deltas.before # server.history[k].deltas.after
  /\ server.history[2].deltas.after # getPlayerStates(NewPlayers)

\* C37: a client's staging buffer never holds the same move in both slots: in
\* every state reachable through selectMove and submitMoves, if both slots of
\* selectedMoves are non-null their move values differ, so no submission carries
\* the same move twice.
C37_StagedMovesDiffer ==
  program = "hotseat" =>
    \A i \in Seats :
      LET sel == clients[i].selectedMoves
          sent == submitMoves_sent(clients[i])
      IN /\ (sel[0] # NullCommand /\ sel[1] # NullCommand) => sel[0].move # sel[1].move
         /\ sent # <<>> => sent[1].move[0].move # sent[1].move[1].move

\* client 0 has filled both slots before any round, Retreat first and Advance second
C37_Witness ==
  /\ program = "hotseat"
  /\ Len(server.history) = 0
  /\ clients[0].selectedMoves[0] = [playerIndex |-> 0, move |-> "Retreat"]
  /\ clients[0].selectedMoves[1] = [playerIndex |-> 0, move |-> "Advance"]

=============================================================================
